---- MODULE Spec2Model ----
(***************************************************************************)
(* The integration drivers of torchdyn/numerics/odeint.py: odeint with its *)
(* fixed-step and adaptive drivers, and odeint_hybrid with its event       *)
(* bisection.                                                              *)
(*                                                                         *)
(* Time is counted in whole quanta, so time arithmetic is exact.  The      *)
(* vector field is the constant field f(t, x) = 1 on a one-component       *)
(* state, for which every Runge-Kutta step is x + dt * slope; the error    *)
(* estimate of a step and the step size proposed by adapt_step are left    *)
(* open (any value the controller can produce).                            *)
(***************************************************************************)
EXTENDS Integers, Sequences, FiniteSets, TLC

VARIABLES
    pc,               \* position of the running driver
    caller_t_span,    \* t_span as the caller passed it
    t_span,           \* t_span as the driver sees it
    solver,           \* the solver object
    interpolator,     \* the interpolator, or None
    return_all_eval,  \* odeint's flag
    x0,               \* the state the caller supplied
    t_span_shape,     \* shape of the caller's t_span: "1d", "column" or "matrix"
    x_like,           \* device and dtype of the caller's x
    f_order,          \* f.order, 0 when f has no such attribute
    caller_return_all_eval,  \* return_all_eval as the caller passed it
    solver_obj,       \* the tensors and attributes of the caller's solver object
    vf,               \* the vector field handed to the driver: f or f_
    t, x, dt, k1,     \* the driver's (t, x, dt, k1)
    dt_old, ckpt_flag, ckpt_counter,
    steps,            \* _fixed_odeint's step counter
    error_ratio,      \* error norm of the last trial step
    eval_times, sol,  \* the solution accumulator
    sample_kind,      \* for each accumulated sample, what appended it
    returned,         \* the (times, states) pair handed back, or None
    callbacks, j_span, event_tol,      \* odeint_hybrid's inputs
    priority,
    rounding,         \* how the run rounds half of an odd number of quanta
    jnum, event_states, new_event_states,
    dt_pre, t_inner, dt_inner, x_inner, niters,
    x_inner_from,     \* what x_inner was assigned from: "current" (x) or "trial" (x_)
    coarse_method, fine_method,        \* the solvers of the multiple-shooting solver
    ms_field,         \* the vector field odeint_mshooting is called with
    B0, maxiter,      \* odeint_mshooting's B0 (or None) and maxiter
    B,                \* root_solve's boundary states
    B_origin,         \* for each entry of B, what assigned it in the last round
    round,            \* root_solve's round counter i
    truncated,        \* the accumulator no longer holds its oldest samples
    jumps_applied,    \* how many jump maps the run has applied
    outcome           \* what the last loop iteration did

inputs == <<caller_t_span, solver, interpolator, return_all_eval, x0,
           t_span_shape, x_like, f_order, caller_return_all_eval>>
hyb_inputs == <<callbacks, j_span, event_tol, priority, rounding>>
ms == <<coarse_method, fine_method, ms_field, B0, maxiter, B, B_origin, round>>
ckpt == <<dt_old, ckpt_flag, ckpt_counter>>
accum == <<eval_times, sol, sample_kind, truncated>>
bisect == <<dt_pre, t_inner, dt_inner, x_inner, niters, x_inner_from>>
events == <<jnum, event_states, new_event_states, jumps_applied>>

vars == <<pc, caller_t_span, t_span, solver, interpolator, return_all_eval, x0, vf,
          t_span_shape, x_like, f_order, caller_return_all_eval, solver_obj,
          coarse_method, fine_method, ms_field, B0, maxiter, B, B_origin, round,
          t, x, dt, k1, dt_old, ckpt_flag, ckpt_counter, steps, error_ratio,
          eval_times, sol, sample_kind, returned, callbacks, j_span, event_tol, priority,
          rounding,
          jnum, event_states, new_event_states, dt_pre, t_inner, dt_inner,
          x_inner, niters, x_inner_from, truncated, jumps_applied, outcome>>

----------------------------------------------------------------------------
(* Bounds of the model *)

MaxT == 4         \* largest time of a requested grid, in quanta
MaxLen == 3       \* most entries of a requested grid

----------------------------------------------------------------------------
(* Values *)

\* Python's None; every tensor is a non-empty tuple of components
None == <<>>

Tensor(v) == <<v>>

\* an interpolator object (fit, evaluate, bmid)
Interpolator == <<"interpolator">>

Neg(s) == [i \in 1..Len(s) |-> 0 - s[i]]

StrictlyAscending(s) == \A i \in 1..(Len(s) - 1) : s[i] < s[i + 1]

StrictlyDescending(s) == \A i \in 1..(Len(s) - 1) : s[i] > s[i + 1]

\* the monotone grids a caller may pass
Grids ==
    UNION { { s \in [1..n -> 0..MaxT] : StrictlyAscending(s) \/ StrictlyDescending(s) }
            : n \in 2..MaxLen }

----------------------------------------------------------------------------
(* Solvers: what step returns, position by position *)

Solvers == {"euler", "rk4", "dopri5", "tsit5", "caller_fixed", "caller_adaptive"}

\* the solvers odeint_symplectic is called with: AsynchronousLeapfrog too, built
\* with stepping_class 'fixed' or 'adaptive'
SymplecticSolvers == Solvers \cup {"alf", "alf_adaptive"}

SteppingClass(s) ==
    IF s \in {"euler", "rk4", "caller_fixed", "caller_fixed4", "alf"} THEN "fixed"
    ELSE "adaptive"

\* the tuple a solver's step returns, as the names of what each position holds
StepLayout(s) ==
    CASE s \in {"euler", "rk4", "alf"} -> <<"none", "none", "x_sol">>
      [] s = "alf_adaptive" -> <<"none", "x_err", "x_sol">>
      [] s \in {"dopri5", "tsit5"} -> <<"k_last", "x_sol", "x_err">>
      [] s \in {"caller_fixed", "caller_fixed4"} -> <<"k_last", "x_sol", "x_err">>
      [] s = "caller_adaptive" -> <<"k_last", "x_sol", "x_err", "stages">>

\* the vector fields: "f" is f(t, x) = 1 and "g" is f(t, x) = 2 t; the
\* reversed-time field of f is f_(t, x) = -f(-t, x)
ReverseOf(field) == IF field = "f" THEN "f_" ELSE "g_"

Slope(field, tt, xx) ==
    CASE field = "f" -> 1
      [] field = "f_" -> 0 - 1
      [] OTHER -> 2 * tt

\* the derivative in t of the slope
SlopeRate(field) == IF field \in {"f", "f_"} THEN 0 ELSE 2

\* a slope value remembers where it was evaluated
SlopeAt(field, tt, xx) == <<field, tt, xx>>

\* x_sol of one explicit step of size h from (tt, xx): x + dt * k1
XSol(field, xx, tt, h) == [i \in 1..Len(xx) |-> xx[i] + h * Slope(field, tt, xx)]

\* the solvers whose x_sol is a tableau's weighted sum of several slopes
TableauStep(s) == s \in {"rk4", "dopri5", "tsit5", "caller_fixed4"}

\* x + dt * (bsol[0] * k1 + ... ): for a slope that is linear in t the sum is
\* the slope at the middle of the step (sum bsol = 1, sum bsol * c = 1/2)
XSolTableau(field, xx, tt, h) ==
    [i \in 1..Len(xx) |-> xx[i] + h * Slope(field, tt, xx) + (h * h * SlopeRate(field)) \div 2]

\* x_sol as solver s computes it
XSolOf(s, field, xx, tt, h) ==
    IF TableauStep(s) THEN XSolTableau(field, xx, tt, h) ELSE XSol(field, xx, tt, h)

\* the value found at one position of a step's result
StepSlot(s, i, field, xx, tt, h) ==
    CASE StepLayout(s)[i] = "x_sol" -> XSolOf(s, field, xx, tt, h)
      [] StepLayout(s)[i] = "k_last" -> SlopeAt(field, tt + h, XSolOf(s, field, xx, tt, h))
      [] OTHER -> None

\* device and dtype of a tensor
Like(device, dtype) == <<device, dtype>>

DefaultLike == Like("cpu", "float32")

\* what the caller's x may be like
XLikes == {DefaultLike, Like("cuda", "float64")}

\* the solvers whose __init__ builds a tableau
HasTableau(s) == s # "euler"

\* SolverTemplate.__init__ and the subclasses' __init__: the solver object as
\* the caller holds it before the call
NewSolver(s) ==
    [tableau |-> IF HasTableau(s) THEN DefaultLike ELSE None,
     safety |-> "cpu", min_factor |-> "cpu", max_factor |-> "cpu",
     x_shape |-> None]

\* SolverTemplate.sync_device_dtype: the tableau goes to x's device and dtype,
\* the step-control tensors to x's device
SyncDeviceDtype(obj, like) ==
    [obj EXCEPT !.tableau = IF obj.tableau # None THEN like ELSE None,
                !.safety = like[1],
                !.min_factor = like[1],
                !.max_factor = like[1]]

----------------------------------------------------------------------------
(* Step-size control and interpolation (torchdyn/numerics/utils.py and     *)
(* interpolators.py), from their description                               *)

MaxDt0 == 3       \* largest initial step size init_step proposes, in quanta

\* error norms a trial step may have: none, exactly 1, more than 1
ErrRatios == {0, 1, 2}

max_factor == 10

\* 1 / min_factor
min_factor_inv == 5

\* init_step: a positive step size
InitStep == 1..MaxDt0

\* adapt_step: dt * factor with factor = safety * ratio^(-1/order) clamped to
\* [min_factor, max_factor]; factor < 1 when ratio > 1, factor = max_factor
\* when ratio = 0.  A trial of one quantum has no smaller step to retry with.
AdaptStep(d, ratio) ==
    CASE ratio > 1 -> { e \in 1..(d - 1) : min_factor_inv * e >= d }
      [] ratio = 0 -> { max_factor * d }
      [] OTHER -> { d, 2 * d }

\* interpolator.evaluate(coefs, t0, t1, tau): exact for the constant field
InterpEvaluate(field, x_0, t_0, tau) ==
    [i \in 1..Len(x_0) |-> x_0[i] + (tau - t_0) * Slope(field, t_0, x_0)]

----------------------------------------------------------------------------
(* odeint *)

T == t_span[Len(t_span)]

\* len(t_eval), with t_eval = t_span[1:]
TEvalLen == Len(t_span) - 1

\* t_eval[c], c counted from 0
TEval(c) == t_span[c + 2]

Reversed(s) == s[2] < s[1]

Returned(times, states) == [times |-> times, states |-> states]

NotMShooting ==
    /\ coarse_method = "none" /\ fine_method = "none" /\ ms_field = "f"
    /\ B0 = None /\ maxiter = 0
    /\ B = <<>> /\ B_origin = <<>> /\ round = 0

NotHybrid ==
    /\ callbacks = <<>> /\ j_span = 0 /\ event_tol = 0 /\ priority = "jump"
    /\ rounding = "down"
    /\ jnum = 0 /\ event_states = <<>> /\ new_event_states = <<>> /\ jumps_applied = 0
    /\ dt_pre = 0 /\ t_inner = 0 /\ dt_inner = 0 /\ x_inner = None /\ niters = 0
    /\ x_inner_from = "current"

\* nothing has run yet
NotStarted ==
    /\ t_span = caller_t_span
    /\ vf = "f"
    /\ t = 0 /\ x = x0 /\ dt = 0 /\ k1 = None
    /\ dt_old = 0 /\ ckpt_flag = FALSE /\ ckpt_counter = 0
    /\ steps = 0 /\ error_ratio = 0
    /\ eval_times = <<>> /\ sol = <<>> /\ sample_kind = <<>> /\ truncated = FALSE
    /\ returned = None
    /\ outcome = "none"

\* shapes of t_span: one-dimensional, (n, 1) or (n, m) with m > 1
TSpanShapes == {"1d", "column", "matrix"}

InitOdeint ==
    /\ pc = "odeint"
    /\ caller_t_span \in Grids
    /\ solver \in Solvers
    /\ interpolator \in {None, Interpolator}
    /\ return_all_eval \in BOOLEAN
    /\ x0 \in {Tensor(0), Tensor(1)}
    /\ t_span_shape \in TSpanShapes
    /\ x_like \in XLikes
    /\ f_order = 0
    /\ caller_return_all_eval = return_all_eval
    /\ solver_obj = NewSolver(solver)
    /\ NotStarted
    /\ NotHybrid
    /\ NotMShooting

\* the grid the drivers integrate on
DriverGrid(s) == IF Reversed(s) THEN Neg(s) ELSE s

\* the field the drivers integrate
DriverField(s) == IF Reversed(s) THEN "f_" ELSE "f"

\* if t_span[1] < t_span[0]: the truth value of a comparison of rows with more
\* than one entry is ambiguous (RuntimeError)
ComparisonFails == t_span_shape = "matrix"

\* if len(t_span.shape) > 1: raise NotImplementedError
ParallelRoutine == t_span_shape # "1d"

\* the first lines of _fixed_odeint and, for an adaptive solver, the initial
\* slope k1_0 and step size, and the first lines of _adaptive_odeint
EnterDriver(k1_0) ==
    /\ t' = t_span'[1]
    /\ sol' = <<x>>
    /\ sample_kind' = <<"init">>
    /\ IF SteppingClass(solver) = "fixed"
       THEN /\ pc' = "fixed"
            /\ dt' = t_span'[2] - t_span'[1]
            /\ steps' = 1
            /\ UNCHANGED <<k1, eval_times>>
       ELSE /\ pc' = "adaptive"
            /\ k1' = k1_0
            /\ dt' \in InitStep
            /\ eval_times' = <<t'>>
            /\ UNCHANGED steps

\* a raise before any driver is called
Abort(why) ==
    /\ pc' = "error"
    /\ outcome' = why
    /\ UNCHANGED <<t, k1, dt, steps, eval_times, sol, sample_kind>>

\* odeint up to the call of a driver, and the driver's first lines
Odeint ==
    /\ pc = "odeint"
    /\ IF ComparisonFails
       THEN /\ Abort("ambiguous")
            /\ UNCHANGED <<t_span, vf, solver_obj>>
       ELSE /\ t_span' = DriverGrid(caller_t_span)
            /\ vf' = DriverField(caller_t_span)
            /\ solver_obj' = SyncDeviceDtype(solver_obj, x_like)
            /\ IF ParallelRoutine
               THEN Abort("not_implemented")
               ELSE /\ EnterDriver(SlopeAt(vf', t_span'[1], x))
                    /\ UNCHANGED outcome
    /\ UNCHANGED <<inputs, ms, x, ckpt, error_ratio, truncated, returned,
                   hyb_inputs, events, bisect>>

----------------------------------------------------------------------------
(* odeint_symplectic *)

\* a Python bool passed where an interpolator is expected
Bool(b) == <<"bool", b>>

\* x[..., :solver.x_shape]
Pos(xx, n) == SubSeq(xx, 1, n)

InitSymplectic ==
    /\ pc = "odeint_symplectic"
    /\ caller_t_span \in Grids
    /\ solver \in SymplecticSolvers
    /\ interpolator = None
    /\ return_all_eval \in BOOLEAN
    /\ x0 \in {<<0, 1>>, <<1, 1>>}
    /\ t_span_shape \in TSpanShapes
    /\ x_like \in XLikes
    /\ f_order \in 0..2
    /\ caller_return_all_eval = return_all_eval
    /\ solver_obj = NewSolver(solver)
    /\ NotStarted
    /\ NotHybrid
    /\ NotMShooting

\* odeint_symplectic up to the call of a driver, and the driver's first lines;
\* _adaptive_odeint receives return_all_eval in the position of interpolator
OdeintSymplectic ==
    /\ pc = "odeint_symplectic"
    /\ LET synced == SyncDeviceDtype(solver_obj, x_like)
           x_shape == Len(x) \div 2
       IN  IF ComparisonFails
           THEN /\ Abort("ambiguous")
                /\ UNCHANGED <<t_span, vf, solver_obj, interpolator, return_all_eval>>
           ELSE /\ t_span' = DriverGrid(caller_t_span)
                /\ vf' = DriverField(caller_t_span)
                /\ IF f_order = 0
                   THEN /\ Abort("no_order")
                        /\ solver_obj' = synced
                        /\ UNCHANGED <<interpolator, return_all_eval>>
                   ELSE IF solver \in {"alf", "alf_adaptive"} /\ f_order = 2
                   THEN /\ Abort("alf_second_order")
                        /\ solver_obj' = synced
                        /\ UNCHANGED <<interpolator, return_all_eval>>
                   ELSE /\ solver_obj' = [synced EXCEPT !.x_shape = <<x_shape>>]
                        /\ IF ParallelRoutine
                           THEN /\ Abort("not_implemented")
                                /\ UNCHANGED <<interpolator, return_all_eval>>
                           ELSE /\ EnterDriver(SlopeAt("f", t_span'[1],
                                                       IF f_order = 1 THEN Pos(x, x_shape) ELSE x))
                                /\ IF SteppingClass(solver) = "adaptive"
                                   THEN /\ interpolator' = Bool(return_all_eval)
                                        /\ return_all_eval' = FALSE
                                   ELSE UNCHANGED <<interpolator, return_all_eval>>
                                /\ UNCHANGED outcome
    /\ UNCHANGED <<caller_t_span, solver, x0, t_span_shape, x_like, f_order,
                   caller_return_all_eval, ms, x, ckpt, error_ratio, truncated, returned,
                   hyb_inputs, events, bisect>>

----------------------------------------------------------------------------
(* _fixed_odeint *)

\* one pass of the loop; a step result of another length cannot be unpacked,
\* and a step from a state that is None fails in the solver
FixedStep ==
    /\ pc = "fixed"
    /\ steps <= Len(t_span) - 1
    /\ IF x = None \/ Len(StepLayout(solver)) # 3
       THEN /\ pc' = "error"
            /\ outcome' = IF x = None THEN "none_state" ELSE "unpack"
            /\ UNCHANGED <<x, sol, sample_kind, t, dt, steps>>
       ELSE /\ x' = StepSlot(solver, 2, vf, x, t, dt)
            /\ sol' = Append(sol, x')
            /\ sample_kind' = Append(sample_kind, "step")
            /\ t' = t + dt
            /\ dt' = IF steps < Len(t_span) - 1 THEN t_span[steps + 2] - t' ELSE dt
            /\ steps' = steps + 1
            /\ pc' = "fixed"
            /\ UNCHANGED outcome
    /\ UNCHANGED <<inputs, solver_obj, ms, t_span, vf, k1, ckpt, error_ratio, eval_times,
                   truncated, returned, hyb_inputs, events, bisect>>

\* return t_span, torch.stack(sol); None cannot be stacked
FixedReturn ==
    /\ pc = "fixed"
    /\ ~(steps <= Len(t_span) - 1)
    /\ IF \E i \in 1..Len(sol) : sol[i] = None
       THEN pc' = "error" /\ outcome' = "none_state" /\ UNCHANGED returned
       ELSE pc' = "done" /\ returned' = Returned(t_span, sol) /\ UNCHANGED outcome
    /\ UNCHANGED <<inputs, solver_obj, ms, t_span, vf, t, x, dt, k1, ckpt, steps, error_ratio,
                   accum, hyb_inputs, events, bisect>>

----------------------------------------------------------------------------
(* _adaptive_odeint *)

\* if t + dt > T: dt = T - t
Clamp(tt, d) == IF tt + d > T THEN T - tt ELSE d

\* the checkpoint test comparing with the end of the grid instead of the next
\* requested time
ClipNeededAtEnd(tt, d, c) == c < TEvalLen /\ tt + d > T

\* (ckpt_counter < len(t_eval)) and (t + dt > t_eval[ckpt_counter])
ClipNeeded(tt, d, c) == c < TEvalLen /\ tt + d > TEval(c)

\* the error test passing every trial
AcceptAlways(ratio) == TRUE

\* the error test with the threshold off by one
AcceptStepLax(ratio) == ratio <= 2

\* accept_step = error_ratio <= 1
AcceptStep(ratio) == ratio <= 1

\* the requested times the dense-output loop appends for the step [tt, tt + h]
RECURSIVE InterpCheckpoints(_, _, _)
InterpCheckpoints(c, tt, h) ==
    IF ClipNeeded(tt, h, c)
    THEN <<TEval(c)>> \o InterpCheckpoints(c + 1, tt, h)
    ELSE <<>>

\* t + dt == t_eval[ckpt_counter]
LandsOnCheckpoint(tt, h, c) == tt + h = TEval(c)

\* whether the pass from (tt, d, c) resets dt to reach the next requested time
Clipped(tt, d, c) == interpolator = None /\ ClipNeeded(tt, Clamp(tt, d), c)

\* the dt of a trial step that is never reset to reach a requested time
TrialDtUnclipped(tt, d, c) == Clamp(tt, d)

\* the dt of the trial step of the pass from (tt, d, c)
TrialDt(tt, d, c) == IF Clipped(tt, d, c) THEN TEval(c) - tt ELSE Clamp(tt, d)

\* interpolator.bmid, interpolator.fit, interpolator.evaluate exist
HasBmid(interp) == interp = Interpolator

\* one pass of the while loop: clamp, clip, trial step, error test, commit,
\* restore and adapt
AdaptiveIteration ==
    /\ pc = "adaptive"
    /\ t < T
    /\ \E r \in ErrRatios :
         LET dt1 == Clamp(t, dt)
             clip == Clipped(t, dt, ckpt_counter)
             dt2 == TrialDt(t, dt, ckpt_counter)
             f_new == StepSlot(solver, 1, vf, x, t, dt2)
             x_new == StepSlot(solver, 2, vf, x, t, dt2)
             accept == AcceptStep(r)
             taus == IF accept /\ interpolator # None
                     THEN InterpCheckpoints(ckpt_counter, t, dt2) ELSE <<>>
             c1 == ckpt_counter + Len(taus)
             dt3 == IF clip THEN dt1 - dt2 ELSE dt2
         IN  IF \/ Len(StepLayout(solver)) # 4
                \/ (accept /\ Len(taus) > 0 /\ ~HasBmid(interpolator))
                \/ (accept /\ ~(c1 < TEvalLen))
             THEN /\ pc' = "error"
                  /\ outcome' = IF Len(StepLayout(solver)) # 4 THEN "unpack"
                                ELSE IF Len(taus) > 0 /\ ~HasBmid(interpolator)
                                THEN "no_bmid" ELSE "index"
                  /\ UNCHANGED <<t, x, dt, k1, ckpt, error_ratio, accum>>
             ELSE /\ pc' = "adaptive"
                  /\ error_ratio' = r
                  /\ dt' \in AdaptStep(dt3, r)
                  /\ dt_old' = IF clip THEN dt1 ELSE dt_old
                  /\ ckpt_flag' = FALSE
                  /\ IF accept
                     THEN LET lands == LandsOnCheckpoint(t, dt2, c1)
                              keep == lands \/ return_all_eval
                              times1 == eval_times \o taus
                              sol1 == sol \o [i \in 1..Len(taus) |->
                                                InterpEvaluate(vf, x, t, taus[i])]
                              kind1 == sample_kind \o [i \in 1..Len(taus) |-> "interp"]
                          IN  /\ eval_times' = IF keep THEN Append(times1, t + dt2) ELSE times1
                              /\ sol' = IF keep THEN Append(sol1, x_new) ELSE sol1
                              /\ sample_kind' = IF keep THEN Append(kind1, "step") ELSE kind1
                              /\ ckpt_counter' = IF lands THEN c1 + 1 ELSE c1
                              /\ t' = t + dt2
                              /\ x' = x_new
                              /\ k1' = f_new
                              /\ outcome' = "accept"
                     ELSE /\ outcome' = "reject"
                          /\ UNCHANGED <<t, x, k1, ckpt_counter, eval_times, sol, sample_kind>>
                  /\ UNCHANGED truncated
    /\ UNCHANGED <<inputs, solver_obj, ms, t_span, vf, steps, returned, hyb_inputs,
                   events, bisect>>

\* return torch.cat(eval_times), torch.stack(sol)
AdaptiveReturn ==
    /\ pc = "adaptive"
    /\ ~(t < T)
    /\ pc' = "done"
    /\ returned' = Returned(eval_times, sol)
    /\ UNCHANGED <<inputs, solver_obj, ms, t_span, vf, t, x, dt, k1, ckpt, steps, error_ratio,
                   accum, outcome, hyb_inputs, events, bisect>>

NextOdeint == Odeint \/ FixedStep \/ FixedReturn \/ AdaptiveIteration \/ AdaptiveReturn

SpecOdeint == InitOdeint /\ [][NextOdeint]_vars

NextSymplectic ==
    OdeintSymplectic \/ FixedStep \/ FixedReturn \/ AdaptiveIteration \/ AdaptiveReturn

SpecSymplectic == InitSymplectic /\ [][NextSymplectic]_vars

----------------------------------------------------------------------------
(* odeint_mshooting and MSZero.root_solve *)

MaxIter == 3      \* largest maxiter

\* fine_steps, at its default
fine_steps == 2

\* the states _fixed_odeint appends from grid[k] on, xx being the state at
\* grid[k]; a step from None fails, and None is what follows it
RECURSIVE FixedSol(_, _, _, _, _)
FixedSol(method, field, xx, grid, k) ==
    IF k = Len(grid)
    THEN <<xx>>
    ELSE <<xx>> \o FixedSol(method, field,
                            IF xx = None THEN None
                            ELSE StepSlot(method, 2, field, xx, grid[k], grid[k + 1] - grid[k]),
                            grid, k + 1)

\* torch.stack(sol) raises when an entry is None
StackFails(states) == \E k \in 1..Len(states) : states[k] = None

\* torch.linspace(0, dt, fine_steps)
SubTSpan == <<0, t_span[2] - t_span[1]>>

\* odeint_func(f, b, sub_t_span, solver=method)[1][-1]
Propagate(method, b) ==
    LET states == FixedSol(method, ms_field, b, SubTSpan, 1) IN states[Len(states)]

\* whether that call raises
PropagateFails(method) == StackFails(FixedSol(method, ms_field, Tensor(0), SubTSpan, 1))

Plus(a, b) == [k \in 1..Len(a) |-> a[k] + b[k]]

Minus(a, b) == [k \in 1..Len(a) |-> a[k] - b[k]]

\* torch.zeros_like
Zeros(n) == [k \in 1..n |-> Tensor(0)]

\* the solvers a multiple-shooting solver may hold: the repository's by name,
\* or one assigned to the attribute by the caller
MSMethods == {"euler", "rk4", "caller_fixed", "caller_fixed4"}

\* B0 as the caller may pass it: None, or the initial state at every boundary
B0Args(grid, xx) == {None, [k \in 1..Len(grid) |-> xx]}

MSMaxLen == 4     \* most entries of a grid of odeint_mshooting

\* the monotone grids odeint_mshooting is called with
MSGrids ==
    UNION { { s \in [1..n -> 0..MaxT] : StrictlyAscending(s) \/ StrictlyDescending(s) }
            : n \in 2..MSMaxLen }

InitMShooting ==
    /\ pc = "odeint_mshooting"
    /\ caller_t_span \in MSGrids
    /\ solver = "mszero"
    /\ coarse_method \in MSMethods
    /\ fine_method \in MSMethods
    /\ ms_field \in {"f", "g"}
    /\ interpolator = None
    /\ return_all_eval = FALSE
    /\ x0 \in {Tensor(0), Tensor(1)}
    /\ B0 \in B0Args(caller_t_span, x0)
    /\ maxiter \in 0..MaxIter
    /\ B = <<>> /\ B_origin = <<>> /\ round = 0
    /\ t_span_shape = "1d"
    /\ x_like = DefaultLike
    /\ f_order = 0
    /\ caller_return_all_eval = FALSE
    /\ solver_obj = NewSolver(coarse_method)
    /\ NotStarted
    /\ NotHybrid

\* odeint_mshooting up to the call of root_solve, and root_solve's first lines
OdeintMShooting ==
    /\ pc = "odeint_mshooting"
    /\ solver_obj' = SyncDeviceDtype(solver_obj, x_like)
    /\ LET guess == FixedSol(coarse_method,
                             IF Reversed(t_span) THEN ReverseOf(ms_field) ELSE ms_field,
                             x, DriverGrid(t_span), 1)
       IN  IF B0 = None /\ StackFails(guess)
           THEN /\ pc' = "error"
                /\ outcome' = "none_state"
                /\ UNCHANGED <<B, B_origin>>
           ELSE /\ pc' = "root_solve"
                /\ B' = IF B0 = None THEN guess ELSE B0
                /\ B_origin' = [k \in 1..Len(B') |-> "guess"]
                /\ UNCHANGED outcome
    /\ round' = 0
    /\ UNCHANGED <<inputs, coarse_method, fine_method, ms_field, B0, maxiter, t_span, vf, t,
                   x, dt, k1, ckpt, steps, error_ratio, accum, returned, hyb_inputs, events,
                   bisect>>

\* len(t_span) - 1
n_subinterv == Len(t_span) - 1

\* while i <= maxiter
RootSolveContinues == round <= maxiter

\* a round that only sweeps the coarse solver: B_in = coarse(B_in); B_out[m] = B_in
RECURSIVE UpdateFromCoarseOnly(_, _, _, _)
UpdateFromCoarseOnly(B_prev, B_out, B_in, m) ==
    IF m >= n_subinterv
    THEN B_out
    ELSE LET b == Propagate(coarse_method, B_in)
         IN  UpdateFromCoarseOnly(B_prev, [B_out EXCEPT ![m + 1] = b], b, m + 1)

\* the for loop of one round from index m (counted from 0) on:
\* B_in = coarse(B_in) - B_coarse[m-i] + B_fine[m-i]; B_out[m] = B_in
RECURSIVE UpdateFrom(_, _, _, _)
UpdateFrom(B_prev, B_out, B_in, m) ==
    IF m >= n_subinterv
    THEN B_out
    ELSE LET b == Plus(Minus(Propagate(coarse_method, B_in),
                             Propagate(coarse_method, B_prev[m])),
                       Propagate(fine_method, B_prev[m]))
         IN  UpdateFrom(B_prev, [B_out EXCEPT ![m + 1] = b], b, m + 1)

\* a prefix that copies one entry fewer: B_out[:i-1] = B[:i-1]
FrozenPrefixShort(B_prev, n) ==
    [k \in 1..Len(B_prev) |-> IF k < n THEN B_prev[k] ELSE Tensor(0)]

\* B_out = zeros_like(B); B_out[:i] = B[:i]
FrozenPrefix(B_prev, n) ==
    [k \in 1..Len(B_prev) |-> IF k <= n THEN B_prev[k] ELSE Tensor(0)]

\* what assigned entry k (counted from 1) in round n
OriginInRound(k, n) ==
    IF k <= n THEN "frozen" ELSE IF k <= n_subinterv THEN "update" ELSE "zero"

\* one round of root_solve's while loop
MSRound ==
    /\ pc = "root_solve"
    /\ RootSolveContinues
    /\ round' = round + 1
    /\ IF PropagateFails(coarse_method) \/ PropagateFails(fine_method)
       THEN /\ pc' = "error"
            /\ outcome' = "none_state"
            /\ UNCHANGED <<B, B_origin>>
       ELSE IF round' > Len(B)
       THEN /\ pc' = "error"
            /\ outcome' = "index"
            /\ UNCHANGED <<B, B_origin>>
       ELSE /\ pc' = "root_solve"
            /\ B' = UpdateFrom(B, FrozenPrefix(B, round'), B[round'], round')
            /\ B_origin' = [k \in 1..Len(B) |-> OriginInRound(k, round')]
            /\ UNCHANGED outcome
    /\ UNCHANGED <<inputs, solver_obj, coarse_method, fine_method, ms_field, B0, maxiter,
                   t_span, vf, t, x, dt, k1, ckpt, steps, error_ratio, accum, returned,
                   hyb_inputs, events, bisect>>

\* return B, and odeint_mshooting's return t_span, B
MSReturn ==
    /\ pc = "root_solve"
    /\ ~RootSolveContinues
    /\ pc' = "done"
    /\ returned' = Returned(t_span, B)
    /\ UNCHANGED <<inputs, solver_obj, ms, t_span, vf, t, x, dt, k1, ckpt, steps, error_ratio,
                   accum, outcome, hyb_inputs, events, bisect>>

NextMShooting == OdeintMShooting \/ MSRound \/ MSReturn

SpecMShooting == InitMShooting /\ [][NextMShooting]_vars

----------------------------------------------------------------------------
(* odeint_hybrid: callbacks and the accumulator *)

MaxJ == 2         \* largest j_span
MaxSamples == 7   \* samples the model's accumulator holds

max_iters == 100

\* a callback: check_event is lo <= x (and x <= hi for a band), jump_map
\* subtracts lo ("reset") or leaves x as it is ("stay")
Callback(kind, lo, hi, jump) == [kind |-> kind, lo |-> lo, hi |-> hi, jump |-> jump]

CallbackLists ==
    { <<>>,
      <<Callback("threshold", 1, 0, "reset")>>,
      <<Callback("threshold", 1, 0, "stay"), Callback("threshold", 1, 0, "reset")>>,
      <<Callback("band", 3, 3, "reset")>>,
      <<Callback("threshold", 3, 0, "reset"), Callback("threshold", 2, 0, "reset")>> }

CheckEvent(cb, tt, xx) == xx[1] >= cb.lo /\ (cb.kind = "band" => xx[1] <= cb.hi)

JumpMap(cb, tt, xx) == IF cb.jump = "reset" THEN Tensor(xx[1] - cb.lo) ELSE xx

\* EventState([cb.check_event(t, x) for cb in callbacks])
EventState(cbs, tt, xx) == [i \in 1..Len(cbs) |-> CheckEvent(cbs[i], tt, xx)]

\* sum([(a_ != b_) & (b_ == False) for a_, b_ in zip(new.evid, old.evid)])
TriggeredEvents(new, old) ==
    Cardinality({ i \in 1..Len(new) : new[i] # old[i] /\ old[i] = FALSE })

\* [i for i, idx in enumerate(new.evid) if idx == True]
ActiveIndices(new) == { i \in 1..Len(new) : new[i] = TRUE }

\* the largest index of a set of callback indices
MaxIndex(S) == CHOOSE i \in S : \A j \in S : i >= j

\* min(...) of a non-empty index list
MinIndex(S) == CHOOSE i \in S : \A j \in S : i <= j

\* list.append, on an accumulator that holds the MaxSamples most recent samples
Push(seq, e) == IF Len(seq) < MaxSamples THEN Append(seq, e) ELSE Append(Tail(seq), e)

Overflows(seq, n) == Len(seq) + n > MaxSamples

\* jumps are counted up to one more than any j_span
CountJump(n) == IF n <= MaxJ THEN n + 1 ELSE n

\* the ascending grids that start at time 0
AscendingGrids == { s \in Grids : StrictlyAscending(s) /\ s[1] = 0 }

\* priority='jump' by default; any other string is accepted
Priorities == {"jump", "flow"}

InitHybrid ==
    /\ pc = "odeint_hybrid"
    /\ caller_t_span \in AscendingGrids
    /\ solver \in {"dopri5", "caller_adaptive"}
    /\ interpolator = None
    /\ return_all_eval = FALSE
    /\ x0 \in {Tensor(0), Tensor(1)}
    /\ callbacks \in CallbackLists
    /\ j_span \in {0, 1, MaxJ}
    /\ event_tol \in {1, 2}
    /\ priority \in Priorities
    /\ priority # "jump" => (j_span = 1 /\ event_tol = 1 /\ rounding = "down")
    /\ rounding \in {"down", "up"}
    /\ t_span_shape = "1d"
    /\ x_like = DefaultLike
    /\ f_order = 0
    /\ caller_return_all_eval = FALSE
    /\ solver_obj = NewSolver(solver)
    /\ NotStarted
    /\ NotMShooting
    /\ jnum = 0 /\ event_states = <<>> /\ new_event_states = <<>> /\ jumps_applied = 0
    /\ dt_pre = 0 /\ t_inner = 0 /\ dt_inner = 0 /\ x_inner = None /\ niters = 0
    /\ x_inner_from = "current"

\* odeint_hybrid up to its while loop: the initial-event pass, the initial step
\* size and the accumulator
OdeintHybrid ==
    /\ pc = "odeint_hybrid"
    /\ pc' = "hybrid"
    /\ t' = t_span[1]
    /\ event_states' = [i \in 1..Len(callbacks) |-> FALSE]
    /\ new_event_states' = IF priority = "jump" THEN EventState(callbacks, t', x)
                           ELSE new_event_states
    /\ IF priority = "jump" /\ TriggeredEvents(new_event_states', event_states') > 0
       THEN /\ x' = JumpMap(callbacks[MinIndex(ActiveIndices(new_event_states'))], t', x)
            /\ jnum' = jnum + 1
            /\ jumps_applied' = CountJump(jumps_applied)
            /\ outcome' = "jump"
       ELSE UNCHANGED <<x, jnum, jumps_applied, outcome>>
    /\ k1' = SlopeAt(vf, t', x')
    /\ dt' \in InitStep
    /\ eval_times' = <<t'>>
    /\ sol' = <<x'>>
    /\ sample_kind' = <<"init">>
    /\ solver_obj' = SyncDeviceDtype(solver_obj, x_like)
    /\ UNCHANGED <<inputs, ms, hyb_inputs, t_span, vf, ckpt, steps, error_ratio,
                   truncated, returned, bisect>>

----------------------------------------------------------------------------
(* odeint_hybrid: the while loop *)

\* while t < T and jnum < j_span
HybridContinues == t < T /\ jnum < j_span

\* one pass of the while loop up to the event test and, when no event is
\* triggered, through the error test, the commit, the restore and adapt_step
HybridIteration ==
    /\ pc = "hybrid"
    /\ HybridContinues
    /\ LET dt1 == Clamp(t, dt)
           clip == ClipNeeded(t, dt1, ckpt_counter)
           dt2 == IF clip THEN TEval(ckpt_counter) - t ELSE dt1
           dt_old1 == IF clip THEN dt1 ELSE dt_old
           flag1 == clip \/ ckpt_flag
           c1 == IF clip THEN ckpt_counter + 1 ELSE ckpt_counter
           f_new == StepSlot(solver, 1, vf, x, t, dt2)
           x_new == StepSlot(solver, 2, vf, x, t, dt2)
           nes == EventState(callbacks, t + dt2, x_new)
       IN  IF Len(StepLayout(solver)) # 4
           THEN /\ pc' = "error"
                /\ outcome' = "unpack"
                /\ dt' = dt2 /\ dt_old' = dt_old1 /\ ckpt_flag' = flag1 /\ ckpt_counter' = c1
                /\ UNCHANGED <<t, x, k1, error_ratio, accum, new_event_states, bisect>>
           ELSE IF TriggeredEvents(nes, event_states) > 0
           THEN /\ pc' = "bisect"
                /\ outcome' = "event"
                /\ new_event_states' = nes
                /\ dt' = dt2 /\ dt_old' = dt_old1 /\ ckpt_flag' = flag1 /\ ckpt_counter' = c1
                /\ dt_pre' = dt2 /\ t_inner' = t /\ dt_inner' = dt2 /\ x_inner' = x
                /\ x_inner_from' = "current"
                /\ niters' = 0
                /\ UNCHANGED <<t, x, k1, error_ratio, accum>>
           ELSE \E r \in ErrRatios :
                /\ pc' = "hybrid"
                /\ new_event_states' = nes
                /\ error_ratio' = r
                /\ dt_old' = dt_old1 /\ ckpt_counter' = c1
                /\ ckpt_flag' = FALSE
                /\ dt' \in AdaptStep(IF flag1 THEN dt_old1 - dt2 ELSE dt2, r)
                /\ IF AcceptStep(r)
                   THEN /\ t' = t + dt2
                        /\ x' = x_new
                        /\ truncated' = (truncated \/ Overflows(sol, 1))
                        /\ sol' = Push(sol, x_new)
                        /\ eval_times' = Push(eval_times, t + dt2)
                        /\ sample_kind' = Push(sample_kind, "step")
                        /\ k1' = f_new
                        /\ outcome' = "accept"
                   ELSE /\ outcome' = "reject"
                        /\ UNCHANGED <<t, x, k1, accum>>
                /\ UNCHANGED bisect
    /\ UNCHANGED <<inputs, solver_obj, ms, hyb_inputs, t_span, vf, steps, returned, jnum,
                   event_states, jumps_applied>>

\* while niters < max_iters and event_tol < dt_inner
BisectContinues == niters < max_iters /\ event_tol < dt_inner

\* dt_inner / 2, to a whole number of quanta
HalfOf(d) == IF rounding = "up" THEN (d + 1) \div 2 ELSE d \div 2

\* if triggered_events == 0: advance the start point of the bisection
AdvanceStart(triggered) == triggered = 0

\* the start point advanced by the whole step instead of the trial's half
AdvancedTimeByStep(ti, h) == ti + dt

\* t_inner = t_inner + dt_inner
AdvancedTime(ti, h) == ti + h

\* one pass of the bisection loop: halve, trial step, event test, advance or not
BisectTrial ==
    /\ pc = "bisect"
    /\ BisectContinues
    /\ LET h == HalfOf(dt_inner)
           f_new == StepSlot(solver, 1, vf, x_inner, t_inner, h)
           x_ == StepSlot(solver, 2, vf, x_inner, t_inner, h)
           nes == EventState(callbacks, t_inner + h, x_)
       IN  /\ new_event_states' = nes
           /\ niters' = niters + 1
           /\ IF AdvanceStart(TriggeredEvents(nes, event_states))
              THEN /\ x_inner' = x_
                   /\ x_inner_from' = "trial"
                   /\ t_inner' = AdvancedTime(t_inner, h)
                   /\ dt_inner' = dt
                   /\ k1' = f_new
              ELSE /\ dt_inner' = h
                   /\ UNCHANGED <<x_inner, x_inner_from, t_inner, k1>>
    /\ pc' = "bisect"
    /\ UNCHANGED <<inputs, solver_obj, ms, hyb_inputs, t_span, vf, t, x, dt, ckpt, steps,
                   error_ratio, accum, returned, jnum, event_states, jumps_applied,
                   dt_pre, outcome>>

\* after the bisection loop: the pre-jump sample, the jump, the post-jump
\* sample; min() of an empty list raises ValueError
BisectExit ==
    /\ pc = "bisect"
    /\ ~BisectContinues
    /\ IF ActiveIndices(new_event_states) = {}
       THEN /\ pc' = "error"
            /\ outcome' = "min_of_empty"
            /\ x' = x_inner
            /\ t' = t_inner
            /\ UNCHANGED <<dt, k1, accum, jumps_applied>>
       ELSE LET i == MinIndex(ActiveIndices(new_event_states))
                x_post == JumpMap(callbacks[i], t_inner, x_inner)
            IN  /\ pc' = "hybrid"
                /\ outcome' = "jump"
                /\ t' = t_inner
                /\ x' = x_post
                /\ truncated' = (truncated \/ Overflows(sol, 2))
                /\ sol' = Push(Push(sol, x_inner), x_post)
                /\ eval_times' = Push(Push(eval_times, t_inner), t_inner)
                /\ sample_kind' = Push(Push(sample_kind, "pre"), "post")
                /\ jumps_applied' = CountJump(jumps_applied)
                /\ k1' = None
                /\ dt' = dt_pre
    /\ UNCHANGED <<inputs, solver_obj, ms, hyb_inputs, t_span, vf, ckpt, steps, error_ratio,
                   returned, jnum, event_states, new_event_states, bisect>>

\* return torch.cat(eval_times), torch.stack(sol)
HybridReturn ==
    /\ pc = "hybrid"
    /\ ~HybridContinues
    /\ pc' = "done"
    /\ returned' = Returned(eval_times, sol)
    /\ UNCHANGED <<inputs, solver_obj, ms, hyb_inputs, t_span, vf, t, x, dt, k1, ckpt, steps,
                   error_ratio, accum, events, bisect, outcome>>

NextHybrid == OdeintHybrid \/ HybridIteration \/ BisectTrial \/ BisectExit \/ HybridReturn

SpecHybrid == InitHybrid /\ [][NextHybrid]_vars

\* the loops are sequential code: a pass that can run does run
SpecHybridFair == SpecHybrid /\ WF_vars(NextHybrid)

Init == InitOdeint \/ InitSymplectic \/ InitMShooting \/ InitHybrid

Next == NextOdeint \/ NextSymplectic \/ NextMShooting \/ NextHybrid

Spec == Init /\ [][Next]_vars

----------------------------------------------------------------------------
(* Claims about odeint, checked under SpecOdeint *)

C3_CommittedStepsPassErrorTest ==
    [][(pc = "adaptive" /\ pc' = "adaptive"
          /\ (t' # t \/ x' # x \/ k1' # k1 \/ eval_times' # eval_times \/ sol' # sol))
        => error_ratio' <= 1]_vars

\* a step with error norm exactly 1 was committed
C3_Witness ==
    /\ pc = "adaptive" /\ outcome = "accept" /\ error_ratio = 1
    /\ t > t_span[1] /\ x # x0

\* C10: the times odeint returns are the caller's t_span, also when it descends.
C10_ReturnedTimesAreCallers ==
    pc = "done" => returned.times = caller_t_span

----------------------------------------------------------------------------
(* Claims about the accumulated times, checked under Spec *)

SamplePairs == 1..(Len(eval_times) - 1)

\* C2: accumulated times never decrease, and two consecutive samples have the
\* same time only when they are the pre-jump and post-jump samples of one event.
C2_TimesOrdered ==
    \A i \in SamplePairs :
        /\ eval_times[i] <= eval_times[i + 1]
        /\ eval_times[i] = eval_times[i + 1]
             => (sample_kind[i] = "pre" /\ sample_kind[i + 1] = "post")

----------------------------------------------------------------------------
(* Claims about odeint_hybrid, checked under SpecHybrid and SpecHybridFair *)

\* C4: the jump count counts every jump applied, and a run with j_span >= 1
\* applies at most j_span jumps.
C4_JumpCountBoundsJumps ==
    /\ jnum = jumps_applied
    /\ j_span >= 1 => jumps_applied <= j_span

\* C5: odeint_hybrid terminates (returns or raises).
C5_Terminates == <>(pc \in {"done", "error"})

\* the requested grid occurs, in order, among the times
GridCovered(grid, times) ==
    \E pos \in [1..Len(grid) -> 1..Len(times)] :
        /\ \A i \in 1..(Len(grid) - 1) : pos[i] < pos[i + 1]
        /\ \A i \in 1..Len(grid) : times[pos[i]] = grid[i]

\* C6: when odeint_hybrid returns after reaching T, every time of t_span is
\* among the returned times, in order.
C6_GridCovered ==
    (pc = "done" /\ t >= T /\ ~truncated) => GridCovered(t_span, returned.times)

\* the callback the jump is taken from
Selected == callbacks[MinIndex(ActiveIndices(new_event_states))]

\* the time at which the trajectory from (tt, xx), of slope 1, reaches lo
CrossingTime(cb, tt, xx) == tt + (cb.lo - xx[1])

\* C7: when the bisection of a step [t, t + dt] has stopped on the tolerance, for
\* a threshold callback whose indicator is false at t, the time about to be
\* recorded for the pre- and post-jump samples is within event_tol of the time
\* at which the indicator becomes true.
C7_EventTimeWithinTol ==
    (/\ pc = "bisect"
     /\ dt_inner <= event_tol
     /\ Selected.kind = "threshold"
     /\ ~CheckEvent(Selected, t, x))
        => /\ t_inner - CrossingTime(Selected, t, x) <= event_tol
           /\ CrossingTime(Selected, t, x) - t_inner <= event_tol

\* a bisection that advanced its start point and then stopped on the tolerance
C7_Witness ==
    /\ pc = "bisect"
    /\ dt_inner <= event_tol
    /\ Selected.kind = "threshold"
    /\ ~CheckEvent(Selected, t, x)
    /\ niters >= 3
    /\ t_inner > t

\* C8: when a trial step triggers an event, every callback counted as triggered
\* had its indicator false at the current (t, x), the last accepted sample.
C8_TriggersOnlyOnRisingEdge ==
    (pc = "bisect" /\ niters = 0)
        => \A i \in 1..Len(callbacks) :
             (new_event_states[i] # event_states[i] /\ event_states[i] = FALSE)
                => ~CheckEvent(callbacks[i], t, x)

\* C9: a bisection that ends on max_iters raises no error.
C9_NoErrorWhenItersExhausted ==
    ~(pc = "error" /\ niters >= max_iters)

----------------------------------------------------------------------------
(* Claims about the entry points and the solvers *)

\* the raises of odeint and odeint_symplectic before a driver is called
FatalConditions == {"ambiguous", "not_implemented", "no_order", "alf_second_order"}

\* C11: when odeint or odeint_symplectic aborts on a fatal condition, no step
\* has been taken and the caller's solver object is as it was before the call.
C11_FatalLeavesSolverUntouched ==
    (pc = "error" /\ outcome \in FatalConditions)
        => /\ sol = <<>> /\ steps = 0
           /\ solver_obj = NewSolver(solver)

\* the solvers of SOLVER_DICT
RepoSolvers == {"euler", "rk4", "dopri5", "tsit5", "alf", "alf_adaptive"}

\* C12: with a solver of the repository no driver aborts on the shape of a
\* step result, and the state a driver holds is never an absent value.
C12_DriversTakeXSol ==
    solver \in RepoSolvers
        => /\ ~(pc = "error" /\ outcome \in {"unpack", "none_state"})
           /\ (pc \in {"fixed", "adaptive", "hybrid", "bisect", "done"} => x # None)

\* C13: in the fixed-step driver the k-th appended state is the x_sol of a step
\* from the state before it at t_span[k] with dt = t_span[k+1] - t_span[k], one
\* state is appended per step, and the driver returns t_span and a state for
\* every grid point, the first being the supplied x.
C13_FixedStatesAreXSol ==
    (SteppingClass(solver) = "fixed" /\ pc \in {"fixed", "done"})
        => /\ Len(sol) = steps
           /\ \A k \in 1..(Len(sol) - 1) :
                sol[k + 1] = XSol(vf, sol[k], t_span[k], t_span[k + 1] - t_span[k])
           /\ pc = "done" => /\ returned = Returned(t_span, sol)
                             /\ Len(sol) = Len(t_span)
                             /\ sol[1] = x0

----------------------------------------------------------------------------
(* Claims about multiple shooting, checked under SpecMShooting *)

\* C14: when odeint_mshooting returns, root_solve has performed exactly maxiter
\* rounds and the returned pair is t_span and B as the last round left it.
C14_MaxiterRounds ==
    (solver = "mszero" /\ pc = "done")
        => /\ round = maxiter
           /\ returned = Returned(caller_t_span, B)

----------------------------------------------------------------------------
(* Claims about the adaptive driver, checked under SpecOdeint *)

\* C15: a pass of the adaptive loop whose trial step has error norm > 1 leaves
\* the accumulator, t, x, k1 and the checkpoint counter as they were, and the
\* retry has a smaller dt.
C15_RejectionKeepsState ==
    [][(pc = "adaptive" /\ pc' = "adaptive" /\ error_ratio' > 1)
          => /\ UNCHANGED <<eval_times, sol, t, x, k1, ckpt_counter>>
             /\ dt' < dt]_vars

\* a trial was rejected after a requested time had been reached
C15_Witness ==
    /\ pc = "adaptive" /\ outcome = "reject" /\ error_ratio > 1
    /\ Len(sol) >= 2 /\ ckpt_counter >= 1 /\ t < T

----------------------------------------------------------------------------
(* Claims about odeint_hybrid, checked under SpecHybrid *)

\* the end of the interval the last bisection trial stepped over
TrialEnd ==
    IF AdvanceStart(TriggeredEvents(new_event_states, event_states))
    THEN t_inner
    ELSE t_inner + dt_inner

\* C16: every bisection trial of a step [t, t + dt] starts at or after t and ends
\* at or before t + dt.
C16_TrialsInsideStep ==
    (pc = "bisect" /\ niters >= 1) => (t <= t_inner /\ TrialEnd <= t + dt)

\* C17: the pass that follows the bisection of a detected event appends the
\* pre-jump state and then the selected callback's jump_map of it, both at time
\* t_inner, continues from the post-jump state at t_inner with k1 absent, and
\* resumes with the dt of the trial that detected the event.
C17_EventAppendsPrePost ==
    [][(pc = "bisect" /\ ~BisectContinues)
          => /\ pc' = "hybrid"
             /\ sol' = Push(Push(sol, x_inner), JumpMap(Selected, t_inner, x_inner))
             /\ eval_times' = Push(Push(eval_times, t_inner), t_inner)
             /\ t' = t_inner
             /\ x' = JumpMap(Selected, t_inner, x_inner)
             /\ k1' = None
             /\ dt' = dt_pre /\ dt_pre = dt]_vars

----------------------------------------------------------------------------
(* Claims about all drivers, checked under Spec *)

\* k1 is absent or the integrated field's slope at (tt, xx); a first-order
\* symplectic field is evaluated at the position half of the state
K1Fits(tt, xx) ==
    \/ k1 = None
    \/ k1 = SlopeAt(vf, tt, xx)
    \/ f_order = 1 /\ k1 = SlopeAt(vf, tt, Pos(xx, Len(xx) \div 2))

\* C18: whenever a driver is about to call solver.step with a cached slope, the
\* slope is that of the field being integrated at the (t, x) of the step.
C18_CachedSlopeIsCurrent ==
    /\ (pc = "adaptive" /\ t < T) => K1Fits(t, x)
    /\ (pc = "hybrid" /\ HybridContinues) => K1Fits(t, x)
    /\ (pc = "bisect" /\ BisectContinues) => K1Fits(t_inner, x_inner)

----------------------------------------------------------------------------
(* Claims about the adaptive driver without an interpolator, checked under  *)
(* SpecOdeint                                                               *)

\* the trial step of the next pass is positive and ends at or before T and the
\* next requested time
TrialInsideGrid ==
    (pc = "adaptive" /\ interpolator = None /\ t < T)
        => /\ TrialDt(t, dt, ckpt_counter) > 0
           /\ t + TrialDt(t, dt, ckpt_counter) <= T
           /\ ckpt_counter < TEvalLen
           /\ t + TrialDt(t, dt, ckpt_counter) <= TEval(ckpt_counter)

\* a pass with a clipped trial adapts dt_old minus the clipped dt
ClipRestored ==
    (pc = "adaptive" /\ pc' = "adaptive" /\ Clipped(t, dt, ckpt_counter))
        => /\ dt_old' = Clamp(t, dt)
           /\ dt' \in AdaptStep(dt_old' - TrialDt(t, dt, ckpt_counter), error_ratio')

\* C19: in the adaptive driver without an interpolator every trial step has
\* dt > 0 and ends at or before T and the next requested time; a pass with a
\* clipped trial restores dt to dt_old minus the clipped dt before adapting it and
\* clears the flag; t never exceeds T and the loop ends with t = T.
C19_TrialsStayOnGrid ==
    /\ [](TrialInsideGrid /\ (pc \in {"adaptive", "done"} => ~ckpt_flag /\ t <= T))
    /\ []((pc = "done" /\ SteppingClass(solver) = "adaptive") => t = T)
    /\ [][ClipRestored]_vars

\* a clipped trial has just been rejected
C19_Witness ==
    /\ pc = "adaptive" /\ interpolator = None /\ outcome = "reject" /\ t < T
    /\ dt_old > TEval(ckpt_counter) - t
    /\ dt < dt_old - (TEval(ckpt_counter) - t)

----------------------------------------------------------------------------
(* Claims about odeint_hybrid's initial-event pass, checked under SpecHybrid *)

\* the callbacks whose indicator is true at (t_span[0], x)
ActiveAtStart == { i \in 1..Len(callbacks) : CheckEvent(callbacks[i], t_span[1], x) }

\* x and jnum after an initial pass that runs: the jump of the lowest-indexed
\* active callback, counted once, or no change when no callback is active
InitialPassJumps ==
    IF ActiveAtStart # {}
    THEN /\ \E i \in ActiveAtStart :
              /\ \A j \in ActiveAtStart : i <= j
              /\ x' = JumpMap(callbacks[i], t_span[1], x)
         /\ jnum' = jnum + 1
    ELSE x' = x /\ jnum' = jnum

\* the initial slope and the first sample are taken from x after the pass, and no
\* step has been taken
StartsFromPassResult ==
    /\ k1' = SlopeAt(vf, t_span[1], x')
    /\ sol' = <<x'>> /\ eval_times' = <<t_span[1]>> /\ t' = t_span[1]

\* C20 (as amended): with priority = 'jump', if a callback's indicator is true at
\* (t_span[0], x) the jump_map of the lowest-indexed such callback is applied to x
\* before the initial slope and step size are computed and before any step, and
\* jnum becomes 1; if none is true, or priority is not 'jump', x and jnum are
\* unchanged.
C20_InitialPassWithPriority ==
    [][pc = "odeint_hybrid"
         => /\ IF priority = "jump" THEN InitialPassJumps ELSE x' = x /\ jnum' = jnum
            /\ StartsFromPassResult]_vars

\* two callbacks were active at the start and the pass has applied one jump
C20_Witness ==
    /\ pc = "hybrid" /\ priority = "jump" /\ Len(sol) = 1 /\ jnum = 1
    /\ Len(callbacks) = 2 /\ \A i \in 1..2 : CheckEvent(callbacks[i], t_span[1], x0)

\* C20 (as stated): whenever a callback's indicator is true at (t_span[0], x) the
\* jump_map of the lowest-indexed such callback is applied and counted, whatever
\* the priority.
C20_InitialPassAlways ==
    [][pc = "odeint_hybrid" => InitialPassJumps /\ StartsFromPassResult]_vars

----------------------------------------------------------------------------
(* Claims about odeint_symplectic's adaptive path, checked under            *)
(* SpecSymplectic                                                           *)

\* the adaptive driver is running or has ended, for an adaptive solver
InAdaptiveDriver ==
    /\ SteppingClass(solver) = "adaptive"
    /\ pc \in {"adaptive", "done"} \/ (pc = "error" /\ outcome \notin FatalConditions)

\* C21: odeint_symplectic with an adaptive solver runs the adaptive driver with no
\* interpolator and with the caller's return_all_eval flag; with
\* return_all_eval = False the driver does not fail for want of an interpolant
\* and the returned times are the grid t_span.
C21_SymplecticRunsClipStep ==
    InAdaptiveDriver
        => /\ interpolator = None
           /\ return_all_eval = caller_return_all_eval
           /\ ~caller_return_all_eval
                => /\ ~(pc = "error" /\ outcome = "no_bmid")
                   /\ pc = "done" => returned.times = t_span

----------------------------------------------------------------------------
(* Claims about MSZero.root_solve, checked under SpecMShooting; indices of  *)
(* B count from 1 here and from 0 in the code                               *)

\* a round of root_solve has run to its end
RoundCompletes == pc = "root_solve" /\ pc' = "root_solve" /\ round' = round + 1

\* C22: in round i, for every m from i up to the last boundary the round
\* updates, B_out[m] = coarse(B_in) - coarse(B[m-1]) + fine(B[m-1]), B being the
\* array of the previous round and B_in being B[i-1] for m = i and B_out[m-1]
\* otherwise.
C22_PararealUpdate ==
    [][RoundCompletes
         => \A m \in round'..(n_subinterv - 1) :
              LET B_in == IF m = round' THEN B[round'] ELSE B'[m]
              IN  B'[m + 1] = Plus(Minus(Propagate(coarse_method, B_in),
                                         Propagate(coarse_method, B[m])),
                                   Propagate(fine_method, B[m]))]_vars

\* the first round has updated two boundaries with solvers that disagree
C22_Witness ==
    /\ pc = "root_solve" /\ round = 1 /\ Len(B) >= 4
    /\ B_origin[2] = "update" /\ B_origin[3] = "update"
    /\ Propagate(coarse_method, B[2]) # Propagate(fine_method, B[2])

\* B[0] of the initial guess: the caller's B0[0], or x when odeint computes B0
InitialCondition == IF B0 = None THEN x0 ELSE B0[1]

\* C23: across all rounds B[0] is the initial condition of the initial guess, and
\* round i copies the entries with index below i unchanged from the previous
\* round, so a frozen entry keeps its value in every later round.
C23_FrozenPrefixKept ==
    /\ [](pc \in {"root_solve", "done"} => B[1] = InitialCondition)
    /\ [](pc = "done" => returned.states[1] = InitialCondition)
    /\ [][RoundCompletes => \A k \in 1..round' : B'[k] = B[k]]_vars

\* the second round has frozen a boundary that the first round updated
C23_Witness ==
    /\ pc = "root_solve" /\ round = 2 /\ Len(B) >= 3
    /\ B_origin[2] = "frozen" /\ B[2] # Tensor(0) /\ B[2] # B[1]

\* C24: after every round every entry of B, the terminal entry included, is a
\* value copied from the previous round or assigned by the round's update, never
\* the zero placeholder B_out is created with; the returned terminal entry is a
\* propagated state.
C24_NoPlaceholderLeft ==
    (pc \in {"root_solve", "done"} /\ round >= 1)
        => /\ \A k \in 1..Len(B) : B_origin[k] \in {"frozen", "update"}
           /\ pc = "done" => B_origin[Len(B)] = "update"

\* C25: root_solve never indexes B outside 0..len(t_span)-1: all rounds complete
\* and a result is returned for every maxiter >= 0, also maxiter >= len(t_span).
C25_NoIndexOutOfRange ==
    /\ ~(pc = "error" /\ outcome = "index")
    /\ pc = "root_solve" => round <= Len(B)

----------------------------------------------------------------------------
(* Claim about error control in odeint_hybrid, checked under SpecHybrid *)

\* C26: in odeint_hybrid every state that becomes the current state x or is
\* appended to the solution, other than the initial state and the post-jump
\* states, is the result of a step whose scaled error norm was computed and found
\* <= 1; this includes the pre-jump state reached through bisection trial steps.
C26_CommittedStatesErrorTested ==
    [][/\ (pc = "hybrid" /\ pc' = "hybrid" /\ sol' # sol) => error_ratio' <= 1
       /\ (pc = "bisect" /\ pc' # "bisect") => x_inner_from = "current"]_vars

====
